---- MODULE Spec2Model ----
(***************************************************************************)
(* Answer submission and interview progression of hireflow.                *)
(*                                                                         *)
(* The database holds the interviews and candidate_answers tables; every   *)
(* caller of save_candidate_answers runs it on a database session of its   *)
(* own (ui/candidate.py, _submit_all_answers).  A session keeps the rows   *)
(* it added in memory until db.commit() (autoflush is off, db/session.py), *)
(* and every db.query reads the committed tables.  A call is cut into      *)
(* steps at its database queries and judging calls.                        *)
(*                                                                         *)
(* Question generation (generate_knowledge_for_tech) is cut into steps at  *)
(* its upstream chat-completion calls and its feedback query; the resume   *)
(* and job match (get_match_report) is one step on one upstream response.  *)
(*                                                                         *)
(* The Submit Interview button of the candidate dashboard builds the       *)
(* payload it submits from the text areas of the page.  cosine_similarity, *)
(* the master-bank lookup and the Approve & Send handler keep no state     *)
(* between calls: each is one step on inputs drawn from small sets.        *)
(***************************************************************************)
EXTENDS Integers, Sequences, FiniteSets, TLC

\* ------------------------------------------------------------------ bounds
MaxInterviews == 2      \* rows the interviews table may hold
MaxCalls      == 2      \* calls of save_candidate_answers in one behaviour
MaxItems      == 2      \* items of the array a generation response may hold
MaxDim        == 2      \* components of a vector handed to cosine_similarity

\* max_retries of generate_knowledge_for_tech (its default)
max_retries == 2

Sessions   == {1, 2}    \* database sessions (requests) that may be open
Candidates == {1, 2}    \* Candidate.id
Jobs       == {1, 2}    \* Job.id

\* ------------------------------------------------------------- the tables
\* Python None
None == [t |-> "none"]

\* a JSON number
Num(n) == [t |-> "num", v |-> n]

\* a JSON string holding digits, e.g. "85"
Str(n) == [t |-> "str", v |-> n]

\* the questions table: Question.id -> row (models/question.py); a
\* question_text is its sequence of characters (" A" and "b"), its
\* knowledge_question_id the master question it was copied from (0: NULL)
questions ==
  (1 :> [interview_id |-> 1, question_text |-> <<" ", "A">>,
         model_answer |-> "m1", knowledge_question_id |-> 2]) @@
  (2 :> [interview_id |-> 2, question_text |-> <<"b">>,
         model_answer |-> "m2", knowledge_question_id |-> 0])

\* ids an answers dict may use as keys: a question and an id of no row
QuestionKeys == {1, 3}

\* texts of an answer as the caller may pass them, as sequences of characters
AnswerTexts == { <<"a">> }

VARIABLES
  interviews,         \* interviews table: Seq of rows, Interview.id = index
  candidate_answers,  \* candidate_answers table: Seq of rows in insert order
  pc,                 \* per session: "idle", "loop" or "done"
  call,               \* per session: arguments of the running call
  idx,                \* per session: position in answers.items()
  saved,              \* per session: rows added to the session, uncommitted
  llm_scores,         \* per session: the llm_scores list
  result,             \* per session: the dict the call returns
  ncalls,             \* history: calls begun so far
  question_feedback,  \* question_feedback table: set of rows
  gen,                \* the running call of generate_knowledge_for_tech
  match,              \* the last call of get_match_report
  interview_answers,  \* per session: st.session_state["interview_answers"]
  fetched,            \* the last call of fetch_knowledge_questions_by_tech
  approve,            \* the last run of the "Approve & Send" handler
  cos                 \* the last call of cosine_similarity

vars == <<interviews, candidate_answers, pc, call, idx, saved, llm_scores,
          result, ncalls, question_feedback, gen, match, interview_answers,
          fetched, approve, cos>>

\* the state of answer submission
subvars == <<candidate_answers, pc, call, idx, saved, llm_scores, result,
             ncalls>>

\* the state of the dashboard pages and of the library calls
pagevars == <<interview_answers, fetched, approve, cos>>

\* ------------------------------------------------------------- error texts
NoError      == "none"
ErrNotFound  == "Interview ID not found for this candidate."
ErrCompleted == "This interview has already been completed."
ErrType      == "unsupported operand type(s) for +: 'int' and 'str'"
ErrDb        == "database error"

\* ------------------------------------------------------------ the inputs
\* what evaluate_answer_with_llm may hand back for one answer: None (request
\* failed), an exception, a JSON value that is no object, or a JSON object
\* whose "score" is a number, within 0..100 or not, or a string
Judgments ==
  { [kind |-> "none",  score |-> None, feedback |-> None],
    [kind |-> "raise", score |-> None, feedback |-> None],
    [kind |-> "list",  score |-> None, feedback |-> None],
    [kind |-> "dict",  score |-> Num(60), feedback |-> Str(0)],
    [kind |-> "dict",  score |-> Num(150), feedback |-> Str(0)],
    [kind |-> "dict",  score |-> Str(85), feedback |-> Str(0)] }

\* answers dicts: (question id, text) items in iteration order, keys distinct,
\* over every subset of QuestionKeys
AnswerInputs ==
  { a \in UNION { [1..n -> QuestionKeys \X AnswerTexts] :
                    n \in 0..Cardinality(QuestionKeys) } :
      \A i, j \in DOMAIN a : i < j => a[i][1] < a[j][1] }

NoCall   == [candidate |-> 0, interview_id |-> 0, answers |-> <<>>]
NoResult == [saved_count |-> 0, similarities |-> <<>>, error |-> "no call"]

\* an except branch that reports no error
FailureSilent(err) == [saved_count |-> 0, similarities |-> <<>>, error |-> NoError]

\* the dict of the except branch of save_candidate_answers, line 191; a result
\* without the "error" key carries NoError
Failure(err) == [saved_count |-> 0, similarities |-> <<>>, error |-> err]

\* a caller that lets the exception through
SubmitReraises(err) == [raised |-> err]

\* the dict _submit_all_answers returns for an exception that leaves
\* save_candidate_answers
SubmitExcept(err) == [saved_count |-> 0, error |-> err, trace |-> "traceback"]

\* ------------------------------------------------------------- helpers
RECURSIVE GCD(_, _)
GCD(a, b) == IF b = 0 THEN a ELSE GCD(b, a % b)

\* the float n/d, kept exact as a fraction in lowest terms
Float(n, d) == [t |-> "float", n |-> n \div GCD(n, d), d |-> d \div GCD(n, d)]

\* sum(llm_scores) over numbers
RECURSIVE Sum(_)
Sum(s) == IF s = <<>> THEN 0 ELSE Head(s).v + Sum(Tail(s))

\* sum(llm_scores) raises TypeError when an element is not a number
SumRaises(s) == \E k \in DOMAIN s : s[k].t # "num"

\* final_avg_score = sum(llm_scores) / len(llm_scores)
Mean(s) == Float(Sum(s), Len(s))

\* the lookup without its candidate_id filter
FindInterviewAnyCandidate(ivs, iid, c) ==
  IF iid \in DOMAIN ivs THEN {iid} ELSE {}

\* db.query(Interview).filter(id == interview_id).filter(candidate_id == candidate.id).first()
FindInterview(ivs, iid, c) ==
  IF iid \in DOMAIN ivs /\ ivs[iid].candidate_id = c THEN {iid} ELSE {}

\* db.query(Interview).filter((status == "Pending") & (candidate_id == candidate.id)):
\* the rows .first() may return (the query has no ORDER BY)
PendingOf(ivs, c) ==
  { i \in DOMAIN ivs : ivs[i].status = "Pending" /\ ivs[i].candidate_id = c }

\* the llm_score and feedback one loop iteration obtains for an answer
Judge(question, answer_text, j) ==
  IF question.model_answer # "" /\ answer_text # <<>>
  THEN IF j.kind = "dict"
       THEN [llm_score |-> j.score, feedback |-> j.feedback]
       ELSE [llm_score |-> None, feedback |-> None]
  ELSE [llm_score |-> None, feedback |-> None]

\* CandidateAnswer(...) of one loop iteration
NewAnswer(c, qid, iid, answer_text, ev) ==
  [candidate_id |-> c, question_id |-> qid, interview_id |-> iid,
   answer_text |-> answer_text, llm_score |-> ev.llm_score,
   feedback |-> ev.feedback]

\* the interview row after the status update of a submission
Complete(iv, scores) ==
  [iv EXCEPT !.status = "Completed",
             !.evaluation_status = "LLM Evaluvation Completed",
             !.final_score = IF scores # <<>> THEN Mean(scores) ELSE @]

\* db.commit(): the rows of the session reach the table
Commit(rows, added) == rows \o added

\* an except branch that commits instead of rolling back
RollbackKeepsRows(rows, added) == rows \o added

\* db.rollback(): the rows of the session are dropped
Rollback(rows, added) == rows

\* Interview(job_id, candidate_id, status="Pending", evaluation_status="Not Evaluated")
NewInterview(c, j) ==
  [job_id |-> j, candidate_id |-> c, status |-> "Pending",
   evaluation_status |-> "Not Evaluated", final_score |-> None]

\* an assignment that overwrites the interview it finds
AssignResets(ivs, c, j) ==
  IF \E i \in DOMAIN ivs : ivs[i].candidate_id = c /\ ivs[i].job_id = j
  THEN [i \in DOMAIN ivs |->
          IF ivs[i].candidate_id = c /\ ivs[i].job_id = j
          THEN NewInterview(c, j) ELSE ivs[i]]
  ELSE Append(ivs, NewInterview(c, j))

\* an assignment that does not look for an existing interview
AssignUnchecked(ivs, c, j) == Append(ivs, NewInterview(c, j))

\* the interviews table after "Assign Interview" for candidate c and job j
Assign(ivs, c, j) ==
  IF \E i \in DOMAIN ivs : ivs[i].candidate_id = c /\ ivs[i].job_id = j
  THEN ivs
  ELSE Append(ivs, NewInterview(c, j))

\* evaluate_interview: the interviews table it leaves.  It returns before any
\* write when the interview or its questions are missing; otherwise its loop
\* reads q.source_knowledge_id of the first question, an attribute the
\* Question model does not have, and the AttributeError ends it before the
\* writes of lines 76-79 and 111-114
Evaluate(ivs, iid) ==
  IF iid \notin DOMAIN ivs THEN ivs
  ELSE IF {q \in DOMAIN questions : questions[q].interview_id = iid} = {}
       THEN ivs
       ELSE ivs

\* ------------------------------------------------- question generation
\* the errors generate_knowledge_for_tech raises, by the exception that ended
\* the last attempt ("OpenAI generation failed after N attempts: <cause>")
ErrNoKey      == "OPENAI_API_KEY not set."
ErrService    == "upstream request failed"
ErrNoChoices  == "OpenAI response didn't contain any choices."
ErrParse      == "Failed to parse JSON from OpenAI output."
ErrNotList    == "Parsed output is not a JSON list."
ErrUnexpected == "OpenAI generation failed unexpectedly."

\* the value of "prompt" or "question" in an item of a response: "", "A " and
\* "b" as sequences of characters
GenTexts == { <<>>, <<"A", " ">>, <<"b">> }

\* an element of the parsed array: a JSON object, or a value that is no object
GenItems ==
  { [kind |-> "dict", question |-> t] : t \in GenTexts } \cup
  { [kind |-> "other", question |-> <<>>] }

\* what one upstream chat-completion call may produce: an exception of the
\* client, a response without choices, a text _safe_parse_json gives None
\* for, a text that parses to a JSON value that is no array, or an array
GenResponses ==
  { [kind |-> k, items |-> <<>>] :
      k \in {"raise", "nochoices", "malformed", "value"} } \cup
  { [kind |-> "array", items |-> a] :
      a \in UNION { [1..n -> GenItems] : n \in 0..MaxItems } }

\* what the call has returned or raised
NoOut == [kind |-> "none"]
GenOk(items) == [kind |-> "ok", items |-> items]
GenError(err) == [kind |-> "error", error |-> err]

NoGen == [pc |-> "idle", job_id |-> 0, attempt |-> 0, calls |-> 0,
          transient |-> TRUE, parsed |-> <<>>, out |-> NoOut]

\* str.lower() on one character
LowerChar(c) == IF c = "A" THEN "a" ELSE c

\* str.lower()
RECURSIVE Lower(_)
Lower(t) == IF t = <<>> THEN <<>> ELSE <<LowerChar(Head(t))>> \o Lower(Tail(t))

RECURSIVE LStrip(_)
LStrip(t) == IF t # <<>> /\ Head(t) = " " THEN LStrip(Tail(t)) ELSE t

RECURSIVE RStrip(_)
RStrip(t) ==
  IF t # <<>> /\ t[Len(t)] = " " THEN RStrip(SubSeq(t, 1, Len(t) - 1)) ELSE t

\* str.strip()
Strip(t) == RStrip(LStrip(t))

\* the validation loop, lines 274-293: elements that are no object are
\* skipped, the question text of the others is stripped
RECURSIVE Normalise(_)
Normalise(parsed) ==
  IF parsed = <<>> THEN <<>>
  ELSE IF Head(parsed).kind # "dict" THEN Normalise(Tail(parsed))
       ELSE <<[question |-> Strip(Head(parsed).question)]>>
              \o Normalise(Tail(parsed))

\* bad_question_texts, lines 294-301: the lowered, stripped texts of the
\* questions that have a feedback row with is_good False and whose interview
\* is of the job
BadQuestionTexts(ivs, fb, job_id) ==
  { Strip(Lower(questions[q].question_text)) :
      q \in { x \in DOMAIN questions :
                /\ \E f \in fb : f.question_id = x /\ ~f.is_good
                /\ questions[x].interview_id \in DOMAIN ivs
                /\ ivs[questions[x].interview_id].job_id = job_id } }

\* a filter that compares the item text as it is
FilterBadExact(items, bad) ==
  SelectSeq(items, LAMBDA it : it.question \notin bad)

\* filtered_items, lines 303-306
FilterBad(items, bad) ==
  SelectSeq(items, LAMBDA it : Strip(Lower(it.question)) \notin bad)

\* a check that gives up one attempt early
ExhaustedEarly(attempt) == attempt >= max_retries

\* line 312: no attempt is left
Exhausted(attempt) == attempt > max_retries

\* line 193: the condition of the while loop
LoopCondition(attempt) == attempt <= max_retries

\* a fallback whose parsed array is dropped
ParsedDropped(g, items) == [g EXCEPT !.pc = "filter", !.parsed = <<>>]

\* a response parsed to an array: on to validation with it
Parsed(g, items) == [g EXCEPT !.pc = "filter", !.parsed = items]

\* the except branch of an attempt, lines 310-316, and the loop head it
\* returns to
GenExcept(g, cause) ==
  IF Exhausted(g.attempt)
  THEN [g EXCEPT !.pc = "done", !.out = GenError(cause)]
  ELSE IF LoopCondition(g.attempt)
       THEN [g EXCEPT !.pc = "first", !.attempt = @ + 1]
       ELSE [g EXCEPT !.pc = "done", !.out = GenError(ErrUnexpected)]

\* ------------------------------------------------- resume / job match
MatchKeys == {"score", "summary", "strengths", "gaps"}

\* a JSON string
Text(s) == [t |-> "text", s |-> s]

\* a JSON array of strings
List(l) == [t |-> "list", l |-> l]

\* the values the upstream response may give a key
MatchValues(k) ==
  CASE k = "score"   -> {Num(0), Num(75)}
    [] k = "summary" -> {Text(""), Text("fit")}
    [] OTHER         -> {List(<<>>), List(<<"x">>)}

\* the JSON objects the content of a response may parse to: any subset of the
\* four keys
MatchObjects ==
  UNION { { d \in [D -> UNION { MatchValues(k) : k \in MatchKeys }] :
              \A k \in D : d[k] \in MatchValues(k) } : D \in SUBSET MatchKeys }

\* the ways the external request ends without a JSON object: no API key, a
\* timeout, a transport error, an HTTP error status, a body that is no chat
\* completion, no content, content that is no JSON, JSON that is no object
MatchFailures ==
  {"nokey", "timeout", "transport", "status", "badbody", "nocontent",
   "unparseable", "nondict"}

MatchResponses ==
  { [kind |-> k, body |-> <<>>] : k \in MatchFailures } \cup
  { [kind |-> "object", body |-> d] : d \in MatchObjects }

NoMatch == [response |-> [kind |-> "nocall", body |-> <<>>], report |-> None]

\* dict.setdefault(k, v)
setdefault(d, k, v) == IF k \in DOMAIN d THEN d ELSE d @@ (k :> v)

\* the defaults without the last one
EnsureKeysNoGaps(d) ==
  setdefault(setdefault(setdefault(d, "score", Num(0)),
                        "summary", Text("No summary provided.")),
             "strengths", List(<<>>))

\* lines 459-463: the four setdefault calls
EnsureKeys(d) ==
  setdefault(setdefault(setdefault(setdefault(d, "score", Num(0)),
                                   "summary", Text("No summary provided.")),
                        "strengths", List(<<>>)),
             "gaps", List(<<>>))

\* a match whose json.loads is outside the try
get_match_report_unguarded(r) ==
  IF r.kind = "object" THEN EnsureKeys(r.body)
  ELSE IF r.kind = "unparseable" THEN [raised |-> "JSONDecodeError"]
  ELSE None

\* get_match_report on the outcome r of its external request: the report, or
\* None from line 407, line 467 or, after an except clause, line 476
get_match_report(r) ==
  IF r.kind = "object" THEN EnsureKeys(r.body) ELSE None

\* ------------------------------------------- the candidate dashboard
\* what a text area of the interview page may hold: nothing, a blank, a letter
RawTexts == { <<>>, <<" ">>, <<"a">> }

\* ids of the questions shown on the interview page
PageKeys == {1, 2}

\* st.session_state["interview_answers"]: (question id, text) items in
\* iteration order, keys distinct
RawAnswers ==
  { a \in UNION { [1..n -> PageKeys \X RawTexts] :
                    n \in 0..Cardinality(PageKeys) } :
      \A i, j \in DOMAIN a : i < j => a[i][1] < a[j][1] }

\* a payload that keeps every text that is not the empty string
PayloadUnstripped(raw) == SelectSeq(raw, LAMBDA x : x[2] # <<>>)

\* answers_payload of candidate.py lines 233-235: the items whose text v
\* satisfies "v and v.strip()", each with its text unchanged
Payload(raw) == SelectSeq(raw, LAMBDA x : x[2] # <<>> /\ Strip(x[2]) # <<>>)

\* ------------------------------------------------ cosine_similarity
\* the numbers a component of an embedding takes here
Components == {-1, 0, 1, 2}

\* vectors of up to MaxDim components, the empty one among them
Vectors == UNION { [1..n -> Components] : n \in 0..MaxDim }

\* np.dot(va, vb) of two vectors of one length
RECURSIVE Dot(_, _)
Dot(va, vb) ==
  IF va = <<>> THEN 0 ELSE Head(va) * Head(vb) + Dot(Tail(va), Tail(vb))

\* min(va.size, vb.size)
Min(x, y) == IF x <= y THEN x ELSE y

\* va[:min_len]
Prefix(v, min_len) == SubSeq(v, 1, min_len)

\* the sign of a number
Sgn(x) == IF x > 0 THEN 1 ELSE IF x < 0 THEN -1 ELSE 0

\* the float dot / denom of line 210 where denom is the square root of
\* denom2: kept exact as its sign and its square in lowest terms
CosFloat(dot, denom2) ==
  [kind |-> "float", sign |-> Sgn(dot), sq |-> Float(dot * dot, denom2)]

\* the float 0.0
CosZero == CosFloat(0, 1)

\* an exception leaving cosine_similarity
CosRaise(err) == [kind |-> "raise", sign |-> 0, sq |-> Float(0, 1), error |-> err]

ErrEmpty == "Empty vectors"

\* cosine_similarity that divides whatever the denominator is
cosine_similarity_undivided(a, b) ==
  IF Len(a) = 0 \/ Len(b) = 0
  THEN CosRaise(ErrEmpty)
  ELSE LET min_len == Min(Len(a), Len(b))
           va == IF Len(a) # Len(b) THEN Prefix(a, min_len) ELSE a
           vb == IF Len(a) # Len(b) THEN Prefix(b, min_len) ELSE b
           denom2 == Dot(va, va) * Dot(vb, vb)
       IN IF denom2 = 0 THEN [kind |-> "nan", sign |-> 0, sq |-> Float(0, 1)]
          ELSE CosFloat(Dot(va, vb), denom2)

\* cosine_similarity that hands vectors of different shapes to np.dot
cosine_similarity_untruncated(a, b) ==
  IF Len(a) = 0 \/ Len(b) = 0
  THEN CosRaise(ErrEmpty)
  ELSE IF Len(a) # Len(b)
  THEN IF Dot(a, a) * Dot(b, b) = 0 THEN CosZero ELSE CosRaise("shapes not aligned")
  ELSE LET denom2 == Dot(a, a) * Dot(b, b)
       IN IF denom2 = 0 THEN CosZero ELSE CosFloat(Dot(a, b), denom2)

\* cosine_similarity(a, b), lines 194-210: empty input raises, vectors of
\* different shapes are cut to the shorter one, a zero denominator gives 0.0;
\* denom == 0 exactly when its square Dot(va, va) * Dot(vb, vb) is 0
cosine_similarity(a, b) ==
  IF Len(a) = 0 \/ Len(b) = 0
  THEN CosRaise(ErrEmpty)
  ELSE LET min_len == Min(Len(a), Len(b))
           va == IF Len(a) # Len(b) THEN Prefix(a, min_len) ELSE a
           vb == IF Len(a) # Len(b) THEN Prefix(b, min_len) ELSE b
           denom2 == Dot(va, va) * Dot(vb, vb)
       IN IF denom2 = 0 THEN CosZero ELSE CosFloat(Dot(va, vb), denom2)

\* no call of cosine_similarity yet
NoCos == [a |-> <<>>, b |-> <<>>, out |-> CosZero, pc |-> "idle"]

\* --------------------------------- fetch_knowledge_questions_by_tech
\* the knowledge_questions table: KnowledgeQuestion.id -> row
knowledge_questions ==
  (1 :> [technology |-> "python"]) @@
  (2 :> [technology |-> "python"]) @@
  (3 :> [technology |-> "java"])

\* the attributes of the class KnowledgeQuestion
KnowledgeQuestionColumns ==
  {"id", "technology", "question_text", "model_answer", "keywords",
   "created_at", "copied_questions"}

\* the arguments of a lookup
Technologies == {"python", "java"}
Limits == {0, 1, 2}

ErrAttribute == "type object 'KnowledgeQuestion' has no attribute 'tech'"

\* what a call hands back: rows of the master bank, or an exception
FetchRows(ids) == [kind |-> "rows", ids |-> ids, error |-> NoError]
FetchRaise(err) == [kind |-> "raise", ids |-> {}, error |-> err]

\* exclude_question_ids, lines 23-30: the question_id of every feedback row
\* with is_good == False
ExcludeIds(fb) == { f.question_id : f \in { g \in fb : ~g.is_good } }

\* fetch_knowledge_questions_by_tech(db, tech, limit), lines 33-39, as the set
\* of its possible outcomes: the class attribute named at line 35 is looked
\* up when the query is built; a query without ORDER BY may return any
\* limit of the rows that pass its filters
fetch_knowledge_questions_by_tech(fb, tech, limit) ==
  IF "tech" \notin KnowledgeQuestionColumns
  THEN { FetchRaise(ErrAttribute) }
  ELSE LET passing == { k \in DOMAIN knowledge_questions :
                          /\ knowledge_questions[k].technology = tech
                          /\ k \notin ExcludeIds(fb) }
       IN { FetchRows(ids) :
              ids \in { t \in SUBSET passing :
                          Cardinality(t) = Min(limit, Cardinality(passing)) } }

\* no call of fetch_knowledge_questions_by_tech yet
NoFetch == [pc |-> "idle", tech |-> "", limit |-> 0, feedback |-> {},
            out |-> FetchRows({})]

\* --------------------------------------- "Approve & Send to Candidate"
\* the attributes of the class Question
QuestionColumns ==
  {"id", "question_text", "model_answer", "keywords", "model_answer_embedding",
   "created_at", "interview_id", "knowledge_question_id", "interview",
   "knowledge_question", "answers", "feedback"}

\* the columns of questions that are NOT NULL and have no default
QuestionRequired == {"question_text", "interview_id"}

\* the keyword arguments of Question(...) at lines 734-740
ApproveKwargs ==
  {"job_id", "question_text", "model_answer", "keywords",
   "model_answer_embedding"}

\* current_job_code_api: a job, or 0 when the key is missing
ApproveJobs == {0} \cup Jobs

\* a reviewed item of generated_questions_api together with the outcome of
\* get_embedding for its answer: "ok", "raise", or "none" when the answer is
\* empty and no call is made
ApproveItems ==
  { it \in [question : { <<"b">>, <<"c">> }, answer : { <<>>, <<"x">> },
            embed : {"ok", "raise", "none"}] :
      (it.answer = <<>>) <=> (it.embed = "none") }

\* generated_questions_api: up to MaxItems reviewed items
ApproveInputs == UNION { [1..n -> ApproveItems] : n \in 0..MaxItems }

ErrKwarg     == "'job_id' is an invalid keyword argument for Question"
ErrIntegrity == "NOT NULL constraint failed: questions.interview_id"

\* the row of lines 734-752 for one item: the embedding is set when the call
\* is made and succeeds
QuestionRow(it) ==
  [question_text |-> it.question, model_answer |-> it.answer,
   model_answer_embedding |-> IF it.embed = "ok" THEN Str(1) ELSE None]

\* what a run of the handler leaves behind
ApproveDone(job, items, rows, err) ==
  [pc |-> "done", job |-> job, items |-> items, rows |-> rows, error |-> err]

\* the handler of lines 719-769 on the items and the job code of the session:
\* nothing to save or no job code returns at once; the declarative constructor
\* raises TypeError for a keyword that is no attribute of Question, and the
\* commit raises for a required column left unset; both reach the except of
\* lines 765-769, which rolls back
approve_and_send(job, items) ==
  IF items = <<>> \/ job = 0
  THEN ApproveDone(job, items, <<>>, NoError)
  ELSE IF ~(ApproveKwargs \subseteq QuestionColumns)
  THEN ApproveDone(job, items, <<>>, ErrKwarg)
  ELSE IF ~(QuestionRequired \subseteq ApproveKwargs)
  THEN ApproveDone(job, items, <<>>, ErrIntegrity)
  ELSE ApproveDone(job, items, [k \in DOMAIN items |-> QuestionRow(items[k])],
                   NoError)

\* no run of the "Approve & Send" handler yet
NoApprove ==
  [pc |-> "idle", job |-> 0, items |-> <<>>, rows |-> <<>>, error |-> NoError]

\* ---------------------------------------------------------------- Init
Init ==
  /\ interviews = <<>>
  /\ candidate_answers = <<>>
  /\ pc = [p \in Sessions |-> "idle"]
  /\ call = [p \in Sessions |-> NoCall]
  /\ idx = [p \in Sessions |-> 1]
  /\ saved = [p \in Sessions |-> <<>>]
  /\ llm_scores = [p \in Sessions |-> <<>>]
  /\ result = [p \in Sessions |-> NoResult]
  /\ ncalls = 0
  /\ question_feedback = {}
  /\ gen = NoGen
  /\ match = NoMatch
  /\ interview_answers = [p \in Sessions |-> <<>>]
  /\ fetched = NoFetch
  /\ approve = NoApprove
  /\ cos = NoCos

\* ------------------------------------------------------------- actions
\* save_candidate_answers, lines 85-102: look the interview up, reject a
\* missing or completed one, else enter the loop over answers.items()
Enter(p, c, iid, answers) ==
  /\ ncalls < MaxCalls
  /\ ncalls' = ncalls + 1
  /\ call' = [call EXCEPT ![p] = [candidate |-> c, interview_id |-> iid,
                                  answers |-> answers]]
  /\ idx' = [idx EXCEPT ![p] = 1]
  /\ saved' = [saved EXCEPT ![p] = <<>>]
  /\ llm_scores' = [llm_scores EXCEPT ![p] = <<>>]
  /\ IF FindInterview(interviews, iid, c) = {}
     THEN /\ pc' = [pc EXCEPT ![p] = "done"]
          /\ result' = [result EXCEPT ![p] = Failure(ErrNotFound)]
     ELSE IF interviews[iid].status = "Completed"
     THEN /\ pc' = [pc EXCEPT ![p] = "done"]
          /\ result' = [result EXCEPT ![p] =
               [saved_count |-> 0, similarities |-> <<>>, error |-> ErrCompleted]]
     ELSE /\ pc' = [pc EXCEPT ![p] = "loop"]
          /\ UNCHANGED result
  /\ UNCHANGED <<interviews, candidate_answers>>

\* a caller invokes save_candidate_answers on a fresh session
Begin(p, c, iid, answers) ==
  /\ pc[p] = "idle"
  /\ Enter(p, c, iid, answers)

\* the caller that got a result invokes save_candidate_answers once more with
\* the arguments of that call (a double click, a repeated request)
Resubmit(p) ==
  /\ pc[p] = "done"
  /\ Enter(p, call[p].candidate, call[p].interview_id, call[p].answers)

\* a loop that fails the submission on an answer whose question is missing
ProcessAnswerAborts(p, j) ==
  /\ pc[p] = "loop"
  /\ idx[p] <= Len(call[p].answers)
  /\ LET qid == call[p].answers[idx[p]][1]
         answer_text == call[p].answers[idx[p]][2]
     IN IF qid \notin DOMAIN questions
        THEN /\ pc' = [pc EXCEPT ![p] = "done"]
             /\ result' = [result EXCEPT ![p] = Failure("Question not found")]
             /\ UNCHANGED <<saved, llm_scores, idx>>
        ELSE LET ev == Judge(questions[qid], answer_text, j)
             IN /\ saved' = [saved EXCEPT ![p] =
                     Append(@, NewAnswer(call[p].candidate, qid,
                                         call[p].interview_id, answer_text, ev))]
                /\ llm_scores' = [llm_scores EXCEPT ![p] =
                     IF ev.llm_score # None THEN Append(@, ev.llm_score) ELSE @]
                /\ idx' = [idx EXCEPT ![p] = @ + 1]
                /\ UNCHANGED <<pc, result>>
  /\ UNCHANGED <<interviews, candidate_answers, call, ncalls>>

\* one iteration of the loop, lines 104-161, with judgment j from the judge
ProcessAnswer(p, j) ==
  /\ pc[p] = "loop"
  /\ idx[p] <= Len(call[p].answers)
  /\ LET qid == call[p].answers[idx[p]][1]
         answer_text == call[p].answers[idx[p]][2]
     IN IF qid \notin DOMAIN questions
        THEN UNCHANGED <<saved, llm_scores>>
        ELSE LET ev == Judge(questions[qid], answer_text, j)
             IN /\ saved' = [saved EXCEPT ![p] =
                     Append(@, NewAnswer(call[p].candidate, qid,
                                         call[p].interview_id, answer_text, ev))]
                /\ llm_scores' = [llm_scores EXCEPT ![p] =
                     IF ev.llm_score # None THEN Append(@, ev.llm_score) ELSE @]
  /\ idx' = [idx EXCEPT ![p] = @ + 1]
  /\ UNCHANGED <<interviews, candidate_answers, pc, call, result, ncalls>>

\* lines 163-191 after the loop: update a Pending interview of the candidate,
\* commit and return; a TypeError of sum() rolls back and returns the error
Finalize(p) ==
  /\ pc[p] = "loop"
  /\ idx[p] > Len(call[p].answers)
  /\ pc' = [pc EXCEPT ![p] = "done"]
  /\ LET pending == PendingOf(interviews, call[p].candidate)
         ok == [saved_count |-> Len(saved[p]), similarities |-> <<>>,
                error |-> NoError]
     IN IF pending = {}
        THEN /\ candidate_answers' = Commit(candidate_answers, saved[p])
             /\ result' = [result EXCEPT ![p] = ok]
             /\ UNCHANGED interviews
        ELSE \E i \in pending :
               IF SumRaises(llm_scores[p])
               THEN /\ candidate_answers' = Rollback(candidate_answers, saved[p])
                    /\ result' = [result EXCEPT ![p] = Failure(ErrType)]
                    /\ UNCHANGED interviews
               ELSE /\ interviews' = [interviews EXCEPT ![i] =
                                        Complete(@, llm_scores[p])]
                    /\ candidate_answers' = Commit(candidate_answers, saved[p])
                    /\ result' = [result EXCEPT ![p] = ok]
  /\ UNCHANGED <<call, idx, saved, llm_scores, ncalls>>

\* a database call of the loop or the commit raises: lines 188-191
DbError(p) ==
  /\ pc[p] = "loop"
  /\ pc' = [pc EXCEPT ![p] = "done"]
  /\ candidate_answers' = Rollback(candidate_answers, saved[p])
  /\ result' = [result EXCEPT ![p] = Failure(ErrDb)]
  /\ UNCHANGED <<interviews, call, idx, saved, llm_scores, ncalls>>

\* a database call raises and db.rollback() of line 189 raises as well: the
\* exception leaves save_candidate_answers, _submit_all_answers closes the
\* session, which drops its rows, and returns the error dict of its own except
RollbackError(p) ==
  /\ pc[p] = "loop"
  /\ pc' = [pc EXCEPT ![p] = "done"]
  /\ candidate_answers' = Rollback(candidate_answers, saved[p])
  /\ result' = [result EXCEPT ![p] = SubmitExcept(ErrDb)]
  /\ UNCHANGED <<interviews, call, idx, saved, llm_scores, ncalls>>

\* the call hands its result to the caller; the session is closed
Return(p) ==
  /\ pc[p] = "done"
  /\ pc' = [pc EXCEPT ![p] = "idle"]
  /\ call' = [call EXCEPT ![p] = NoCall]
  /\ idx' = [idx EXCEPT ![p] = 1]
  /\ saved' = [saved EXCEPT ![p] = <<>>]
  /\ llm_scores' = [llm_scores EXCEPT ![p] = <<>>]
  /\ result' = [result EXCEPT ![p] = NoResult]
  /\ UNCHANGED <<interviews, candidate_answers, ncalls>>

\* the "Assign Interview" button of render_assign_interview_page
AssignInterview(c, j) ==
  /\ Len(Assign(interviews, c, j)) <= MaxInterviews
  /\ interviews' = Assign(interviews, c, j)
  /\ UNCHANGED <<candidate_answers, pc, call, idx, saved, llm_scores, result,
                 ncalls>>

\* evaluate_interview(db, interview_id)
EvaluateInterview(iid) ==
  /\ interviews' = Evaluate(interviews, iid)
  /\ UNCHANGED <<candidate_answers, pc, call, idx, saved, llm_scores, result,
                 ncalls>>

\* feedback_service.add_feedback(db, question_id, manager_id, is_good)
AddFeedback(qid, is_good) ==
  /\ question_feedback' = question_feedback \cup
       {[question_id |-> qid, is_good |-> is_good]}
  /\ UNCHANGED <<interviews, subvars, gen, match, pagevars>>

\* generate_knowledge_for_tech(db, job_description, job_id), lines 185-194: a
\* missing API key raises at once, else the first attempt begins
Generate(job_id, key) ==
  /\ gen.pc \in {"idle", "done"}
  /\ gen' = IF ~key
            THEN [NoGen EXCEPT !.pc = "done", !.job_id = job_id,
                               !.out = GenError(ErrNoKey)]
            ELSE IF LoopCondition(0)
                 THEN [NoGen EXCEPT !.pc = "first", !.job_id = job_id,
                                    !.attempt = 1]
                 ELSE [NoGen EXCEPT !.pc = "done", !.job_id = job_id,
                                    !.out = GenError(ErrUnexpected)]
  /\ UNCHANGED <<interviews, subvars, question_feedback, match, pagevars>>

\* the first upstream call of an attempt and the parse of its text, lines
\* 196-236, with response r
FirstCall(r) ==
  /\ gen.pc = "first"
  /\ LET g == [gen EXCEPT !.calls = @ + 1,
                          !.transient = @ /\ r.kind = "raise"]
     IN gen' = CASE r.kind = "raise"     -> GenExcept(g, ErrService)
                 [] r.kind = "nochoices" -> GenExcept(g, ErrNoChoices)
                 [] r.kind = "malformed" -> [g EXCEPT !.pc = "fallback"]
                 [] r.kind = "value"     -> GenExcept(g, ErrNotList)
                 [] r.kind = "array"     -> Parsed(g, r.items)
  /\ UNCHANGED <<interviews, subvars, question_feedback, match, pagevars>>

\* the stricter second call of an attempt and the parse of its text, lines
\* 238-276, with response r
FallbackCall(r) ==
  /\ gen.pc = "fallback"
  /\ LET g == [gen EXCEPT !.calls = @ + 1,
                          !.transient = @ /\ r.kind = "raise"]
     IN gen' = CASE r.kind = "raise"     -> GenExcept(g, ErrService)
                 [] r.kind = "nochoices" -> GenExcept(g, ErrParse)
                 [] r.kind = "malformed" -> GenExcept(g, ErrParse)
                 [] r.kind = "value"     -> GenExcept(g, ErrNotList)
                 [] r.kind = "array"     -> Parsed(g, r.items)
  /\ UNCHANGED <<interviews, subvars, question_feedback, match, pagevars>>

\* validation, the feedback query, the filter and the return, lines 273-308
FilterItems ==
  /\ gen.pc = "filter"
  /\ gen' = [gen EXCEPT
       !.pc = "done",
       !.out = GenOk(FilterBad(Normalise(gen.parsed),
                 BadQuestionTexts(interviews, question_feedback, gen.job_id)))]
  /\ UNCHANGED <<interviews, subvars, question_feedback, match, pagevars>>

\* get_match_report(resume_text, job_description) with outcome r of its request
Match(r) ==
  /\ match' = [response |-> r, report |-> get_match_report(r)]
  /\ UNCHANGED <<interviews, subvars, question_feedback, gen, pagevars>>

\* the "Submit Interview" button of render_candidate_dashboard, lines 229-250:
\* build the payload from the text areas and call save_candidate_answers
SubmitInterview(p, c, iid, raw) ==
  /\ interview_answers' = [interview_answers EXCEPT ![p] = raw]
  /\ Begin(p, c, iid, Payload(raw))

\* the button handler after the call, lines 252-262: a result that saved rows
\* clears the interview state of the page
SubmitDone(p) ==
  /\ Return(p)
  /\ interview_answers' = [interview_answers EXCEPT ![p] =
       IF result[p].saved_count > 0 THEN <<>> ELSE @]

\* fetch_knowledge_questions_by_tech(db, tech, limit) on the feedback table as
\* it is; the call writes nothing
Fetch(tech, limit) ==
  /\ \E out \in fetch_knowledge_questions_by_tech(question_feedback, tech, limit) :
        fetched' = [pc |-> "done", tech |-> tech, limit |-> limit,
                    feedback |-> question_feedback, out |-> out]
  /\ UNCHANGED <<interviews, subvars, question_feedback, gen, match,
                 interview_answers, approve, cos>>

\* the "Approve & Send to Candidate" button of render_generate_questions_page
Approve(job, items) ==
  /\ approve' = approve_and_send(job, items)
  /\ UNCHANGED <<interviews, subvars, question_feedback, gen, match,
                 interview_answers, fetched, cos>>

\* one call cosine_similarity(a, b); the function keeps no state between calls
Cosine(a, b) ==
  /\ cos.pc = "idle"
  /\ cos' = [a |-> a, b |-> b, out |-> cosine_similarity(a, b), pc |-> "done"]
  /\ UNCHANGED <<interviews, subvars, question_feedback, gen, match,
                 interview_answers, fetched, approve>>

\* no call of save_candidate_answers is running
Quiescent == \A p \in Sessions : pc[p] = "idle"

\* the session of a request when requests do not overlap
Serial == {1}

\* requests are served one at a time
Submission ==
  \/ \E p \in Serial, c \in Candidates, iid \in 1..(Len(interviews) + 1),
        answers \in AnswerInputs : Quiescent /\ Begin(p, c, iid, answers)
  \/ \E p \in Serial : Resubmit(p)
  \/ \E p \in Serial, j \in Judgments : ProcessAnswer(p, j)
  \/ \E p \in Serial : Finalize(p)
  \/ \E p \in Serial : DbError(p)
  \/ \E p \in Serial : RollbackError(p)
  \/ \E p \in Serial : Return(p)
  \/ \E c \in Candidates, j \in Jobs : AssignInterview(c, j)
  \/ \E iid \in 1..(Len(interviews) + 1) : EvaluateInterview(iid)

Next == Submission /\ UNCHANGED <<question_feedback, gen, match, pagevars>>

Spec == Init /\ [][Next]_vars

\* answers dicts of the overlapping requests
RaceInputs == { a \in AnswerInputs : Len(a) <= 1 }

\* requests of several sessions interleave at their steps
SubmissionConc ==
  \/ \E p \in Sessions, c \in Candidates, iid \in 1..(Len(interviews) + 1),
        answers \in RaceInputs : Begin(p, c, iid, answers)
  \/ \E p \in Sessions, j \in Judgments : ProcessAnswer(p, j)
  \/ \E p \in Sessions : Finalize(p)
  \/ \E p \in Sessions : DbError(p)
  \/ \E p \in Sessions : RollbackError(p)
  \/ \E p \in Sessions : Return(p)
  \/ \E c \in Candidates, j \in Jobs : AssignInterview(c, j)
  \/ \E iid \in 1..(Len(interviews) + 1) : EvaluateInterview(iid)

NextConc == SubmissionConc /\ UNCHANGED <<question_feedback, gen, match, pagevars>>

SpecConc == Init /\ [][NextConc]_vars

\* the candidate whose interviews the generation page works on
GenCandidates == {1}

\* one step of the running generation call
GenStep ==
  \/ \E r \in GenResponses : FirstCall(r)
  \/ \E r \in GenResponses : FallbackCall(r)
  \/ FilterItems

\* question generation, with interviews being assigned and feedback given
NextGen ==
  \/ \E job_id \in Jobs, key \in BOOLEAN : Generate(job_id, key)
  \/ GenStep
  \/ \E qid \in DOMAIN questions, is_good \in BOOLEAN : AddFeedback(qid, is_good)
  \/ \E c \in GenCandidates, j \in Jobs :
        AssignInterview(c, j) /\ UNCHANGED <<question_feedback, gen, match, pagevars>>

SpecGen == Init /\ [][NextGen]_vars

\* generation calls alone
NextGenCall ==
  \/ \E job_id \in Jobs, key \in BOOLEAN : Generate(job_id, key)
  \/ GenStep

\* a call of generate_knowledge_for_tech is synchronous: once begun, it takes
\* its next step
SpecGenFair == Init /\ [][NextGenCall]_vars /\ WF_vars(GenStep)

\* resume and job matches, with interviews being assigned
NextMatch ==
  \/ \E r \in MatchResponses : Match(r)
  \/ \E c \in Candidates, j \in Jobs :
        AssignInterview(c, j) /\ UNCHANGED <<question_feedback, gen, match, pagevars>>

SpecMatch == Init /\ [][NextMatch]_vars

\* the candidate whose dashboard is open
PageCandidates == {1}

\* interviews taken on the candidate dashboard, one request at a time
NextPage ==
  \/ \E p \in Serial, iid \in 1..(Len(interviews) + 1), c \in PageCandidates,
        raw \in RawAnswers :
        Quiescent /\ SubmitInterview(p, c, iid, raw)
                  /\ UNCHANGED <<question_feedback, gen, match, fetched, approve, cos>>
  \/ \E p \in Serial, j \in Judgments :
        ProcessAnswer(p, j) /\ UNCHANGED <<question_feedback, gen, match, pagevars>>
  \/ \E p \in Serial :
        Finalize(p) /\ UNCHANGED <<question_feedback, gen, match, pagevars>>
  \/ \E p \in Serial :
        DbError(p) /\ UNCHANGED <<question_feedback, gen, match, pagevars>>
  \/ \E p \in Serial :
        SubmitDone(p) /\ UNCHANGED <<question_feedback, gen, match, fetched, approve, cos>>
  \/ \E c \in PageCandidates, j \in Jobs :
        AssignInterview(c, j) /\ UNCHANGED <<question_feedback, gen, match, pagevars>>

SpecPage == Init /\ [][NextPage]_vars

\* lookups in the master bank, with feedback being given
NextBank ==
  \/ \E tech \in Technologies, limit \in Limits : Fetch(tech, limit)
  \/ \E qid \in DOMAIN questions, is_good \in BOOLEAN : AddFeedback(qid, is_good)

SpecBank == Init /\ [][NextBank]_vars

\* runs of the "Approve & Send" handler
NextApprove == \E job \in ApproveJobs, items \in ApproveInputs : Approve(job, items)

SpecApprove == Init /\ [][NextApprove]_vars

\* calls of cosine_similarity on every pair of vectors
NextCos == \E a \in Vectors, b \in Vectors : Cosine(a, b)

SpecCos == Init /\ [][NextCos]_vars

\* ------------------------------------------------------------ properties
\* the errors of the except branch, lines 188-191, for a failure inside the loop
\* or the aggregation
Exceptions == {ErrType, ErrDb}

\* session p enters save_candidate_answers in this step
Entered(p) == (pc[p] = "idle" /\ pc'[p] # "idle") \/ Resubmit(p)

\* session p leaves the loop through the except branch in this step
Raised(p) ==
  pc[p] = "loop" /\ pc'[p] = "done" /\ result'[p].error \in Exceptions

\* the rows of the table that belong to interview i
RowsOf(rows, i) == SelectSeq(rows, LAMBDA r : r.interview_id = i)

\* the llm_score values of the rows that obtained one
RECURSIVE ScoresOf(_)
ScoresOf(rows) ==
  IF rows = <<>> THEN <<>>
  ELSE IF Head(rows).llm_score = None THEN ScoresOf(Tail(rows))
       ELSE <<Head(rows).llm_score>> \o ScoresOf(Tail(rows))

\* C1: a submit repeated with the input of a submit that succeeded is rejected
\* with the already-completed error and saved_count 0, and the stored
\* CandidateAnswer rows stay as the first call left them.
C1_ResubmitRejected ==
  [][\A p \in Sessions :
       (Resubmit(p) /\ result[p].error = NoError) =>
          /\ pc'[p] = "done"
          /\ result'[p].error = ErrCompleted
          /\ result'[p].saved_count = 0
          /\ candidate_answers' = candidate_answers]_vars

\* C2: of two overlapping submissions for one interview, both past the initial
\* status check, at most one persists CandidateAnswer rows.
C2_OneSubmissionPersists ==
  \A p, q \in Sessions :
     (/\ p # q
      /\ pc[p] = "done" /\ pc[q] = "done"
      /\ call[p].interview_id = call[q].interview_id
      /\ call[p].candidate = call[q].candidate
      /\ result[p].error = NoError /\ result[q].error = NoError)
     => (result[p].saved_count = 0 \/ result[q].saved_count = 0)

\* C3: an exception inside the loop or the aggregation rolls the submission
\* back: no row of it reaches the table, every interview keeps its status and
\* final_score, the interview stays Pending, a failure result with saved_count
\* 0 is returned, and a submit repeated after it is accepted.
C3_ExceptionRollsBack ==
  [][\A p \in Sessions :
       /\ Raised(p) =>
            /\ candidate_answers' = candidate_answers
            /\ interviews' = interviews
            /\ interviews'[call[p].interview_id].status = "Pending"
            /\ result'[p].saved_count = 0
       /\ (Resubmit(p) /\ result[p].error \in Exceptions) =>
            pc'[p] = "loop"]_vars

\* a submit repeated after a submit that raised with rows pending is in its loop
C3_Witness ==
  \E p \in Sessions :
     /\ pc[p] = "loop"
     /\ result[p].error \in Exceptions
     /\ call[p].answers # <<>>
     /\ candidate_answers = <<>>

\* C4: a submit with an empty answers dict on a Pending interview returns
\* saved_count 0, creates no row and leaves the interview Pending.
C4_EmptySubmitStaysPending ==
  [][\A p \in Sessions :
       (Finalize(p) /\ call[p].answers = <<>>) =>
          /\ result'[p].saved_count = 0
          /\ candidate_answers' = candidate_answers
          /\ interviews'[call[p].interview_id].status = "Pending"]_vars

\* C5: after a successful submission the final_score of the submitted interview
\* is the mean of the llm_score values of the answers of that submission that
\* obtained a score, and saved_count counts every saved answer.
C5_FinalScoreIsMean ==
  [][\A p \in Sessions :
       (Finalize(p) /\ result'[p].error = NoError) =>
          /\ result'[p].saved_count = Len(saved[p])
          /\ ScoresOf(saved[p]) # <<>> =>
               interviews'[call[p].interview_id].final_score
                 = Mean(ScoresOf(saved[p]))]_vars

\* C6: the status of an interview changes only from Pending to Completed; a
\* Completed interview never gets another status.
C6_StatusMonotonic ==
  [][\A i \in DOMAIN interviews :
       /\ i \in DOMAIN interviews'
       /\ interviews'[i].status # interviews[i].status =>
            (interviews[i].status = "Pending"
               /\ interviews'[i].status = "Completed")]_vars

\* an interview is Completed and a further submit for it has been answered
C6_Witness ==
  \E p \in Sessions :
     /\ pc[p] = "done"
     /\ result[p].error = ErrCompleted
     /\ interviews[call[p].interview_id].status = "Completed"

\* C7: once an interview is Completed no operation changes its final_score,
\* its evaluation_status or its CandidateAnswer rows.
C7_CompletedFrozen ==
  [][\A i \in DOMAIN interviews :
       interviews[i].status = "Completed" =>
          /\ interviews'[i] = interviews[i]
          /\ RowsOf(candidate_answers', i) = RowsOf(candidate_answers, i)]_vars

\* C8: a successful submit completes the interview named by interview_id and
\* no other: the rows it saves reference an existing Question and that
\* interview, that interview becomes Completed, and every other interview
\* keeps its status.
C8_CompletesSubmittedInterview ==
  [][\A p \in Sessions :
       (Finalize(p) /\ result'[p].error = NoError) =>
          /\ \A k \in DOMAIN saved[p] :
                /\ saved[p][k].question_id \in DOMAIN questions
                /\ saved[p][k].interview_id = call[p].interview_id
          /\ candidate_answers' = candidate_answers \o saved[p]
          /\ interviews'[call[p].interview_id].status = "Completed"
          /\ \A i \in DOMAIN interviews :
                i # call[p].interview_id =>
                   interviews'[i].status = interviews[i].status]_vars

\* C9: a submit whose interview_id names no interview, or an interview of
\* another candidate, returns the not-found error at once and changes no
\* Interview and no CandidateAnswer row.
C9_NotFoundRejected ==
  [][\A p \in Sessions :
       (/\ Entered(p)
        /\ \/ call'[p].interview_id \notin DOMAIN interviews
           \/ interviews[call'[p].interview_id].candidate_id
                # call'[p].candidate) =>
          /\ pc'[p] = "done"
          /\ result'[p].error = ErrNotFound
          /\ result'[p].saved_count = 0
          /\ interviews' = interviews
          /\ candidate_answers' = candidate_answers]_vars

\* a submit for the Pending interview of another candidate was rejected
C9_Witness ==
  \E p \in Sessions :
     /\ pc[p] = "done"
     /\ result[p].error = ErrNotFound
     /\ call[p].interview_id \in DOMAIN interviews
     /\ interviews[call[p].interview_id].candidate_id # call[p].candidate
     /\ interviews[call[p].interview_id].status = "Pending"
     /\ call[p].answers # <<>>

\* C10: whatever the judging calls of a submission returned, the submission
\* commits: it returns no error and every row of it reaches the table.
C10_JudgmentNeverAborts ==
  [][\A p \in Sessions :
       Finalize(p) =>
          /\ result'[p].error = NoError
          /\ candidate_answers' = candidate_answers \o saved[p]]_vars

\* C11: when every answer of a submission is non-empty and names a question,
\* and scoring fails for all of them, the submission saves one CandidateAnswer
\* row per answer with a null llm_score, the submitted interview becomes
\* Completed and its final_score stays unset.
C11_UnscoredStillCompletes ==
  [][\A p \in Sessions :
       (/\ Finalize(p)
        /\ call[p].answers # <<>>
        /\ \A k \in DOMAIN call[p].answers :
              /\ call[p].answers[k][1] \in DOMAIN questions
              /\ call[p].answers[k][2] # ""
        /\ llm_scores[p] = <<>>) =>
          /\ result'[p].saved_count = Len(call[p].answers)
          /\ candidate_answers' = candidate_answers \o saved[p]
          /\ \A k \in DOMAIN saved[p] : saved[p][k].llm_score = None
          /\ interviews'[call[p].interview_id].status = "Completed"
          /\ interviews'[call[p].interview_id].final_score = None]_vars

\* C12: a submit returns a result record that contains saved_count in every
\* case (interview not found, already completed, scoring error, persistence
\* error, exception leaving save_candidate_answers); no exception reaches the
\* caller of the submission API.
C12_AlwaysReturnsRecord ==
  \A p \in Sessions :
     pc[p] = "done" =>
        /\ "saved_count" \in DOMAIN result[p]
        /\ "raised" \notin DOMAIN result[p]
        /\ result[p].saved_count \in 0..Len(call[p].answers)

\* an exception left save_candidate_answers with rows pending and the caller
\* got a record
C12_Witness ==
  \E p \in Sessions :
     /\ pc[p] = "done"
     /\ "trace" \in DOMAIN result[p]
     /\ saved[p] # <<>>

\* session p ends its call in this step by a rejection or an exception
Failed(p) ==
  \/ Entered(p) /\ pc'[p] = "done"
  \/ DbError(p)
  \/ RollbackError(p)
  \/ /\ Finalize(p)
     /\ PendingOf(interviews, call[p].candidate) # {}
     /\ SumRaises(llm_scores[p])

\* C13: a result that saved nothing because of an error carries an error
\* indication, and the result of a submit that saved nothing because its
\* answers were empty carries none.
C13_ErrorDistinguishable ==
  [][\A p \in Sessions :
       /\ Failed(p) =>
            (result'[p].saved_count = 0 /\ result'[p].error # NoError)
       /\ (Finalize(p) /\ call[p].answers = <<>>) =>
            (result'[p].saved_count = 0 /\ result'[p].error = NoError)]_vars

\* a submit with empty answers has returned, and it reports no error
C13_Witness ==
  \E p \in Sessions :
     /\ pc[p] = "done"
     /\ call[p].answers = <<>>
     /\ call[p].interview_id \in DOMAIN interviews
     /\ result[p].saved_count = 0
     /\ result[p].error = NoError

\* two question texts match: equal after trimming, whatever the case
SameText(a, b) == Lower(Strip(a)) = Lower(Strip(b))

\* the questions marked bad that belong to an interview of the job
BadQuestionsOf(job_id) ==
  { q \in DOMAIN questions :
      /\ [question_id |-> q, is_good |-> FALSE] \in question_feedback
      /\ questions[q].interview_id \in DOMAIN interviews
      /\ interviews[questions[q].interview_id].job_id = job_id }

\* the items of a parsed array of objects, their question text trimmed
ItemsOf(parsed) ==
  [k \in 1..Len(parsed) |-> [question |-> Strip(parsed[k].question)]]

C15_ParseFailureEndsCall ==
  [][\A r \in {x \in GenResponses : x.kind = "malformed"} :
       /\ FirstCall(r) => gen'.pc = "fallback"
       /\ (FallbackCall(r) /\ gen.attempt = 1) =>
            /\ gen'.pc = "done"
            /\ gen'.out = GenError(ErrParse)
            /\ gen'.calls = 2]_vars

\* C16: a generation call never returns an empty list.
C16_NeverReturnsEmpty ==
  (gen.pc = "done" /\ gen.out.kind = "ok") => gen.out.items # <<>>

\* C17: when every upstream call of a generation fails with a transient
\* error, the call stops after max_retries + 1 attempts and fails with the
\* service error; no call makes more attempts, and every call that has begun
\* ends, by returning or by failing.
C17_TransientRetriesBounded ==
  /\ []((gen.pc = "done" /\ gen.calls > 0 /\ gen.transient) =>
          /\ gen.out = GenError(ErrService)
          /\ gen.attempt = max_retries + 1
          /\ gen.calls = max_retries + 1)
  /\ [](gen.attempt <= max_retries + 1)
  /\ (gen.pc \in {"first", "fallback", "filter"}) ~> (gen.pc = "done")

\* every upstream call raised and the call has failed
C17_Witness ==
  /\ gen.pc = "done"
  /\ gen.transient
  /\ gen.calls = max_retries + 1
  /\ gen.out.kind = "error"

\* C18: a generation for a job returns no item whose question text matches
\* (trimmed, whatever the case) a question of that job that has been marked
\* bad, whatever the generator returned.
C18_BadNeverReturned ==
  [][FilterItems =>
       \A q \in BadQuestionsOf(gen.job_id) :
          \A k \in DOMAIN gen'.out.items :
             ~SameText(gen'.out.items[k].question,
                       questions[q].question_text)]_vars

\* a generation returned an item and withheld another, which was, in another
\* spelling, the text of a question marked bad for the job
C18_Witness ==
  /\ gen.pc = "done"
  /\ gen.out.kind = "ok"
  /\ gen.out.items # <<>>
  /\ \E k \in DOMAIN gen.parsed, q \in BadQuestionsOf(gen.job_id) :
        /\ gen.parsed[k].kind = "dict"
        /\ gen.parsed[k].question # questions[q].question_text
        /\ SameText(gen.parsed[k].question, questions[q].question_text)
  /\ \A k \in DOMAIN gen.out.items, q \in BadQuestionsOf(gen.job_id) :
        ~SameText(gen.out.items[k].question, questions[q].question_text)

\* C19: a match whose external request times out, fails in transport or
\* returns content that cannot be used returns None, raises nothing and
\* leaves every Interview record as it was.
C19_FailedMatchReturnsNone ==
  [][\A r \in {x \in MatchResponses : x.kind \in MatchFailures} :
       Match(r) =>
          /\ match'.report = None
          /\ "raised" \notin DOMAIN match'.report
          /\ interviews' = interviews]_vars

\* a match on unparseable content has returned None while an interview exists
C19_Witness ==
  /\ match.response.kind = "unparseable"
  /\ match.report = None
  /\ interviews # <<>>

\* the defaults as the claim names them
EmptyDefault(k) ==
  CASE k = "score"   -> Num(0)
    [] k = "summary" -> Text("")
    [] OTHER         -> List(<<>>)

\* the defaults of lines 460-463
CodeDefault(k) ==
  CASE k = "score"   -> Num(0)
    [] k = "summary" -> Text("No summary provided.")
    [] OTHER         -> List(<<>>)

\* C20 as stated: a report that is not None has the four keys, and a key the
\* response omitted holds score 0, an empty summary or an empty list.
C20_DefaultsEmpty ==
  match.report # None =>
     \A k \in MatchKeys :
        /\ k \in DOMAIN match.report
        /\ k \notin DOMAIN match.response.body =>
             match.report[k] = EmptyDefault(k)

\* C20 amended: a report that is not None has the four keys; a key the
\* response omitted holds score 0, the summary "No summary provided." or an
\* empty list, and a key the response gave keeps its value.
C20_DefaultsFilled ==
  match.report # None =>
     \A k \in MatchKeys :
        /\ k \in DOMAIN match.report
        /\ k \notin DOMAIN match.response.body =>
             match.report[k] = CodeDefault(k)
        /\ k \in DOMAIN match.response.body =>
             match.report[k] = match.response.body[k]

\* a report for a response that gave a score only
C20_Witness ==
  /\ match.report # None
  /\ DOMAIN match.response.body = {"score"}
  /\ match.response.body["score"] = Num(75)

\* all components of v are 0
IsZero(v) == \A k \in DOMAIN v : v[k] = 0

\* C21: whenever at least one argument of cosine_similarity is a zero vector
\* and the other is any non-empty vector, the call raises nothing and returns
\* 0.0
C21_ZeroVectorGivesZero ==
  (cos.pc = "done" /\ cos.a # <<>> /\ cos.b # <<>>
     /\ (IsZero(cos.a) \/ IsZero(cos.b)))
  => cos.out = CosZero

\* a zero vector was compared with a longer vector that is not zero
C21_Witness ==
  /\ cos.pc = "done"
  /\ IsZero(cos.a) /\ cos.a # <<>>
  /\ ~IsZero(cos.b) /\ Len(cos.b) > Len(cos.a)
  /\ cos.out = CosZero

\* C22: for two non-empty vectors of different lengths cosine_similarity raises
\* nothing and returns what it returns for both vectors cut to the shorter
\* length
C22_TruncatesToShorter ==
  (cos.pc = "done" /\ cos.a # <<>> /\ cos.b # <<>> /\ Len(cos.a) # Len(cos.b))
  => LET m == Min(Len(cos.a), Len(cos.b))
     IN /\ cos.out.kind = "float"
        /\ cos.out = cosine_similarity(Prefix(cos.a, m), Prefix(cos.b, m))

\* vectors of lengths 1 and 2, neither zero after the cut, were compared
C22_Witness ==
  /\ cos.pc = "done"
  /\ Len(cos.a) = 1 /\ Len(cos.b) = 2
  /\ cos.out.kind = "float" /\ cos.out.sign = -1
  /\ cos.b[2] # 0

\* C23: after any sequence of submit calls the candidate_answers table holds
\* at most one row for each (interview, question) pair
C23_OneRowPerPair ==
  \A k, l \in DOMAIN candidate_answers :
     (candidate_answers[k].interview_id = candidate_answers[l].interview_id
        /\ candidate_answers[k].question_id = candidate_answers[l].question_id)
     => k = l

\* the answers of a dict whose question_id resolves to a Question row
ResolvedOf(answers) == SelectSeq(answers, LAMBDA x : x[1] \in DOMAIN questions)

\* session p is at an answer of its loop whose question_id resolves to no row
AtMissing(p) ==
  /\ pc[p] = "loop"
  /\ idx[p] <= Len(call[p].answers)
  /\ call[p].answers[idx[p]][1] \notin DOMAIN questions

\* C24: an answer whose question_id resolves to no Question is skipped: the
\* step creates no row and the loop goes on to the next answer; a submission
\* fails only for a database error or a score that cannot be summed; a
\* successful one saves one row for each resolved answer, in order, and its
\* saved_count counts those rows alone
C24_MissingQuestionSkipped ==
  [][\A p \in Sessions :
       /\ (AtMissing(p) /\ <<pc[p], idx[p], result[p]>>' # <<pc[p], idx[p], result[p]>>)
            => \/ result'[p].error = ErrDb
               \/ /\ pc'[p] = "loop" /\ idx'[p] = idx[p] + 1
                  /\ saved'[p] = saved[p] /\ llm_scores'[p] = llm_scores[p]
                  /\ candidate_answers' = candidate_answers
       /\ Finalize(p) =>
            /\ result'[p].error # NoError => SumRaises(llm_scores[p])
            /\ result'[p].error = NoError =>
                 /\ result'[p].saved_count = Len(ResolvedOf(call[p].answers))
                 /\ Len(saved[p]) = Len(ResolvedOf(call[p].answers))
                 /\ \A k \in DOMAIN saved[p] :
                       /\ saved[p][k].question_id = ResolvedOf(call[p].answers)[k][1]
                       /\ saved[p][k].answer_text = ResolvedOf(call[p].answers)[k][2]
                 /\ candidate_answers' = candidate_answers \o saved[p]]_vars

\* a submission with an answer to question 1 and one to the missing id 3 has
\* returned without error, its one row committed
C24_Witness ==
  \E p \in Sessions :
     /\ pc[p] = "done" /\ result[p].error = NoError
     /\ Len(call[p].answers) = 2
     /\ call[p].answers[2][1] \notin DOMAIN questions
     /\ result[p].saved_count = 1
     /\ \E k \in DOMAIN candidate_answers :
           /\ candidate_answers[k].question_id = call[p].answers[1][1]
           /\ candidate_answers[k].interview_id = call[p].interview_id

\* C26: every llm_score in the candidate_answers table is an integer from 0 to
\* 100 whatever the judge returned, and so every final_score of an interview
\* lies in that range too
C26_ScoresInRange ==
  /\ \A k \in DOMAIN candidate_answers :
        candidate_answers[k].llm_score # None =>
           /\ candidate_answers[k].llm_score.t = "num"
           /\ candidate_answers[k].llm_score.v \in 0..100
  /\ \A i \in DOMAIN interviews :
        interviews[i].final_score # None =>
           /\ 0 <= interviews[i].final_score.n
           /\ interviews[i].final_score.n <= 100 * interviews[i].final_score.d

\* a text that is empty or holds whitespace only
Blank(text) == Strip(text) = <<>>

C27_ItemsNonEmpty ==
  (gen.pc = "done" /\ gen.out.kind = "ok")
  => \A k \in DOMAIN gen.out.items : gen.out.items[k].question # <<>>

\* the master questions some question with bad feedback in fb was copied from
BadOrigins(fb) ==
  { questions[f.question_id].knowledge_question_id :
      f \in { g \in fb : ~g.is_good /\ g.question_id \in DOMAIN questions } }

\* C28: a lookup in the master bank returns only questions of the requested
\* technology, at most limit of them, and none that is the origin of a
\* question carrying bad feedback
C28_FetchReturnsGoodOfTech ==
  fetched.pc = "done" =>
     /\ fetched.out.kind = "rows"
     /\ Cardinality(fetched.out.ids) <= fetched.limit
     /\ \A k \in fetched.out.ids :
           /\ k \in DOMAIN knowledge_questions
           /\ knowledge_questions[k].technology = fetched.tech
           /\ k \notin BadOrigins(fetched.feedback)

\* C29: a run of the handler that has items and a job code saves one
\* Question row for each item, and the embedding is absent exactly on the
\* rows whose embedding call failed
C29_EveryItemSaved ==
  (approve.pc = "done" /\ approve.items # <<>> /\ approve.job # 0)
  => /\ Len(approve.rows) = Len(approve.items)
     /\ \A k \in DOMAIN approve.rows :
           /\ approve.rows[k].question_text = approve.items[k].question
           /\ (approve.rows[k].model_answer_embedding = None)
                <=> (approve.items[k].embed = "raise")

\* the interviews table ivs holds an interview of candidate c for job j
Assigned(ivs, c, j) ==
  \E i \in DOMAIN ivs : ivs[i].candidate_id = c /\ ivs[i].job_id = j

\* C30: after any sequence of operations there is at most one Interview per
\* (candidate, job) pair; "Assign Interview" for a pair that has an Interview,
\* Pending or Completed, never changes the table; an Interview is only ever created
\* with status Pending and no final_score, and creating it leaves every
\* existing Interview as it was
C30_OneInterviewPerPair ==
  [][interviews' # interviews =>
       /\ \A i, k \in DOMAIN interviews' :
             (interviews'[i].candidate_id = interviews'[k].candidate_id
                /\ interviews'[i].job_id = interviews'[k].job_id) => i = k
       /\ \A c \in Candidates, j \in Jobs :
             Assigned(interviews, c, j) => ~AssignInterview(c, j)
       /\ Len(interviews') >= Len(interviews)
       /\ \A i \in DOMAIN interviews' \ DOMAIN interviews :
             /\ interviews'[i].status = "Pending"
             /\ interviews'[i].final_score = None
             /\ \A k \in DOMAIN interviews : interviews'[k] = interviews[k]]_vars

\* candidate 1 completed the interview for one job and was then assigned the
\* other job: the table holds one interview for each pair
C30_Witness ==
  /\ Len(interviews) = 2
  /\ interviews[1].candidate_id = 1 /\ interviews[2].candidate_id = 1
  /\ interviews[1].job_id # interviews[2].job_id
  /\ interviews[1].status = "Completed"
  /\ interviews[2].status = "Pending" /\ interviews[2].final_score = None

====
